---- MODULE Spec2Model ----
(***************************************************************************)
(* Model of the interview-agent generation pipeline:                       *)
(*   agent.py     QuestionAgent.generate_qa / QuestionAgent.run            *)
(*   app.py       _save_record (the save callback)                         *)
(*   database.py  get_session (the transactional session scope)           *)
(*                                                                         *)
(* Text is modelled as a sequence of tokens (punctuation, string literals, *)
(* numbers, prose words, code fences, newlines); a string is a sequence of *)
(* chunks, the chunk " " being whitespace.  Python values are tagged       *)
(* records so that values of different Python types can be compared.       *)
(***************************************************************************)
EXTENDS Integers, Sequences, FiniteSets, TLC

(***************************************************************************)
(* Python / JSON values                                                    *)
(***************************************************************************)
None == [t |-> "none"]
JTrue == [t |-> "true"]
Str(chunks) == [t |-> "str", s |-> chunks]
\* a number, by its digits
Num(n) == [t |-> "num", n |-> n]
Arr(items) == [t |-> "arr", a |-> items]
Obj(pairs) == [t |-> "obj", o |-> pairs]
Pair(k, v) == [k |-> k, v |-> v]

IsStr(x) == x.t = "str"
IsList(x) == x.t = "arr"
IsDict(x) == x.t = "obj"

\* Python truthiness: None, "", 0, [] and {} are falsy.
Truthy(x) ==
    CASE x.t = "none" -> FALSE
      [] x.t = "true" -> TRUE
      [] x.t = "str" -> x.s # <<>>
      [] x.t = "num" -> x.n # "0"
      [] x.t = "arr" -> x.a # <<>>
      [] x.t = "obj" -> x.o # <<>>

\* key in dict
HasKey(d, k) == \E i \in 1..Len(d.o) : d.o[i].k = k

\* dict.get(k): the value stored under k, or None
DictGet(d, k) ==
    IF HasKey(d, k)
    THEN d.o[CHOOSE i \in 1..Len(d.o) : d.o[i].k = k].v
    ELSE None

\* d[k] = v on a Python dict: a repeated key keeps its position and takes
\* the later value (json.loads of an object with a duplicate key).
DictSet(pairs, k, v) ==
    IF \E i \in 1..Len(pairs) : pairs[i].k = k
    THEN [i \in 1..Len(pairs) |-> IF pairs[i].k = k THEN Pair(k, v) ELSE pairs[i]]
    ELSE Append(pairs, Pair(k, v))

(***************************************************************************)
(* Strings: str.strip()                                                    *)
(***************************************************************************)
RECURSIVE LStrip(_)
LStrip(s) == IF s # <<>> /\ Head(s) = " " THEN LStrip(Tail(s)) ELSE s

RECURSIVE RStrip(_)
RStrip(s) ==
    IF s # <<>> /\ s[Len(s)] = " " THEN RStrip(SubSeq(s, 1, Len(s) - 1)) ELSE s

Strip(s) == RStrip(LStrip(s))

(***************************************************************************)
(* Text: sequences of tokens                                               *)
(***************************************************************************)
Tok(k) == [k |-> k, s |-> <<>>]
TStr(chunks) == [k |-> "str", s |-> chunks]
TNum(n) == [k |-> "num", s |-> <<n>>]
LB == Tok("lbrace")
RB == Tok("rbrace")
LK == Tok("lbracket")
RK == Tok("rbracket")
CM == Tok("comma")
CL == Tok("colon")
NL == Tok("nl")
FENCE == Tok("fence")
TNull == Tok("null")
TTrue == Tok("true")
Word(w) == [k |-> "word", s |-> <<w>>]

IsSpace(tok) == tok.k = "nl"

RECURSIVE LStripText(_)
LStripText(x) == IF x # <<>> /\ IsSpace(Head(x)) THEN LStripText(Tail(x)) ELSE x

RECURSIVE RStripText(_)
RStripText(x) ==
    IF x # <<>> /\ IsSpace(x[Len(x)])
    THEN RStripText(SubSeq(x, 1, Len(x) - 1))
    ELSE x

StripText(x) == RStripText(LStripText(x))

\* str.find / str.rfind over tokens, 0-based, -1 when absent
Find(x, k) ==
    IF \E i \in 1..Len(x) : x[i].k = k
    THEN (CHOOSE i \in 1..Len(x) :
            x[i].k = k /\ \A j \in 1..(i - 1) : x[j].k # k) - 1
    ELSE -1

RFind(x, k) ==
    IF \E i \in 1..Len(x) : x[i].k = k
    THEN (CHOOSE i \in 1..Len(x) :
            x[i].k = k /\ \A j \in (i + 1)..Len(x) : x[j].k # k) - 1
    ELSE -1

\* Python slice x[start:end] with 0 <= start <= end <= len(x)
Slice(x, start, end) == SubSeq(x, start + 1, end)

(***************************************************************************)
(* json.loads over tokens                                                  *)
(***************************************************************************)
PFail == [ok |-> FALSE, v |-> None, i |-> 0]
POk(v, i) == [ok |-> TRUE, v |-> v, i |-> i]

RECURSIVE SkipWs(_, _)
SkipWs(x, i) == IF i <= Len(x) /\ IsSpace(x[i]) THEN SkipWs(x, i + 1) ELSE i

RECURSIVE ParseValue(_, _)
RECURSIVE ParseElems(_, _, _)
RECURSIVE ParseMembers(_, _, _)

\* elements after "[" or after ","; acc are the elements so far
ParseElems(x, i, acc) ==
    LET r == ParseValue(x, i) IN
    IF ~r.ok THEN PFail
    ELSE LET j == SkipWs(x, r.i) IN
         IF j > Len(x) THEN PFail
         ELSE IF x[j].k = "comma" THEN ParseElems(x, j + 1, Append(acc, r.v))
         ELSE IF x[j].k = "rbracket" THEN POk(Arr(Append(acc, r.v)), j + 1)
         ELSE PFail

\* members after "{" or after ","; acc are the pairs so far
ParseMembers(x, i, acc) ==
    LET j == SkipWs(x, i) IN
    IF j > Len(x) \/ x[j].k # "str" THEN PFail
    ELSE LET c == SkipWs(x, j + 1) IN
         IF c > Len(x) \/ x[c].k # "colon" THEN PFail
         ELSE LET r == ParseValue(x, c + 1) IN
              IF ~r.ok THEN PFail
              ELSE LET e == SkipWs(x, r.i)
                       acc2 == DictSet(acc, x[j].s, r.v) IN
                   IF e > Len(x) THEN PFail
                   ELSE IF x[e].k = "comma" THEN ParseMembers(x, e + 1, acc2)
                   ELSE IF x[e].k = "rbrace" THEN POk(Obj(acc2), e + 1)
                   ELSE PFail

ParseValue(x, i) ==
    LET j == SkipWs(x, i) IN
    IF j > Len(x) THEN PFail
    ELSE CASE x[j].k = "str" -> POk(Str(x[j].s), j + 1)
           [] x[j].k = "num" -> POk(Num(x[j].s[1]), j + 1)
           [] x[j].k = "null" -> POk(None, j + 1)
           [] x[j].k = "true" -> POk(JTrue, j + 1)
           [] x[j].k = "lbracket" ->
                LET e == SkipWs(x, j + 1) IN
                IF e <= Len(x) /\ x[e].k = "rbracket" THEN POk(Arr(<<>>), e + 1)
                ELSE ParseElems(x, j + 1, <<>>)
           [] x[j].k = "lbrace" ->
                LET e == SkipWs(x, j + 1) IN
                IF e <= Len(x) /\ x[e].k = "rbrace" THEN POk(Obj(<<>>), e + 1)
                ELSE ParseMembers(x, j + 1, <<>>)
           [] OTHER -> PFail

\* json.loads(text): one value, nothing but whitespace after it
JsonLoads(x) ==
    LET r == ParseValue(x, 1) IN
    IF r.ok /\ SkipWs(x, r.i) > Len(x) THEN [ok |-> TRUE, v |-> r.v]
    ELSE [ok |-> FALSE, v |-> None]

(***************************************************************************)
(* json.dumps over tokens                                                  *)
(***************************************************************************)
RECURSIVE JsonDumps(_)
RECURSIVE DumpItems(_)
RECURSIVE DumpPairs(_)

DumpItems(items) ==
    IF items = <<>> THEN <<>>
    ELSE IF Len(items) = 1 THEN JsonDumps(items[1])
    ELSE JsonDumps(items[1]) \o <<CM>> \o DumpItems(Tail(items))

DumpPairs(pairs) ==
    IF pairs = <<>> THEN <<>>
    ELSE LET one == <<TStr(pairs[1].k), CL>> \o JsonDumps(pairs[1].v) IN
         IF Len(pairs) = 1 THEN one
         ELSE one \o <<CM>> \o DumpPairs(Tail(pairs))

JsonDumps(v) ==
    CASE v.t = "none" -> <<TNull>>
      [] v.t = "true" -> <<TTrue>>
      [] v.t = "str" -> <<TStr(v.s)>>
      [] v.t = "num" -> <<TNum(v.n)>>
      [] v.t = "arr" -> <<LK>> \o DumpItems(v.a) \o <<RK>>
      [] v.t = "obj" -> <<LB>> \o DumpPairs(v.o) \o <<RB>>

(***************************************************************************)
(* agent.py generate_qa, lines 63-118: from the provider's response to the *)
(* leveled structure                                                       *)
(***************************************************************************)
KQuestion == <<"question">>
KAnswer == <<"answer">>
KBasic == <<"basic">>
KIntermediate == <<"intermediate">>
KExpert == <<"expert">>

\* A response of the provider: resp.text (empty when None or "") and, per
\* candidate, the texts of candidate.content.parts (empty for a part
\* without text, no parts for a candidate without content).
Resp(text, candidates) == [text |-> text, candidates |-> candidates]

RECURSIVE Flatten(_)
Flatten(ss) == IF ss = <<>> THEN <<>> ELSE Head(ss) \o Flatten(Tail(ss))

NonEmpty(x) == x # <<>>

\* lines 64-73 reading the parts of the first candidate only
TextChunks_FirstCandidate(resp) ==
    IF resp.text # <<>> THEN <<resp.text>>
    ELSE IF resp.candidates = <<>> THEN <<>>
    ELSE SelectSeq(resp.candidates[1], NonEmpty)

\* lines 64-73: the list text_chunks
TextChunks(resp) ==
    IF resp.text # <<>> THEN <<resp.text>>
    ELSE SelectSeq(Flatten(resp.candidates), NonEmpty)

RECURSIVE JoinNl(_)
JoinNl(chunks) ==
    IF chunks = <<>> THEN <<>>
    ELSE IF Len(chunks) = 1 THEN chunks[1]
    ELSE chunks[1] \o <<NL>> \o JoinNl(Tail(chunks))

\* line 74
Content(resp) == StripText(JoinNl(SelectSeq(TextChunks(resp), NonEmpty)))

\* lines 77-86 looking for the closing fence with find instead of rfind
Cleaned_FirstFence(content) ==
    LET cleaned == StripText(content) IN
    IF cleaned # <<>> /\ cleaned[1].k = "fence"
    THEN LET start == Find(cleaned, "nl") + 1
             end == Find(cleaned, "fence") IN
         IF end > start /\ start > 0
         THEN StripText(Slice(cleaned, start, end))
         ELSE cleaned
    ELSE cleaned

\* lines 77-86: strip the first fenced block
Cleaned(content) ==
    LET cleaned == StripText(content) IN
    IF cleaned # <<>> /\ cleaned[1].k = "fence"
    THEN LET start == Find(cleaned, "nl") + 1
             end == RFind(cleaned, "fence") IN
         IF end > start /\ start > 0
         THEN StripText(Slice(cleaned, start, end))
         ELSE cleaned
    ELSE cleaned

\* re.search(open [\s\S]* close): from the first opening token to the last
\* closing token (the quantifier is greedy); no match when none closes
\* after an opening one.
Search(x, open, close) ==
    LET i == Find(x, open)
        j == RFind(x, close) IN
    IF i >= 0 /\ j > i
    THEN [found |-> TRUE, text |-> Slice(x, i, j + 1)]
    ELSE [found |-> FALSE, text |-> <<>>]

\* lines 89-101
ParseCleaned(cleaned) ==
    LET direct == JsonLoads(cleaned) IN
    IF direct.ok THEN direct
    ELSE LET match_obj == Search(cleaned, "lbrace", "rbrace")
             match_arr == Search(cleaned, "lbracket", "rbracket") IN
         IF match_obj.found THEN JsonLoads(match_obj.text)
         ELSE IF match_arr.found
         THEN LET r == JsonLoads(match_arr.text) IN
              IF r.ok
              THEN [ok |-> TRUE, v |-> Obj(<<Pair(KBasic, r.v)>>)]
              ELSE r
         ELSE direct

\* lines 109 and 111 testing the question key only
KeepEntry_QuestionOnly(x) == IsDict(x) /\ HasKey(x, KQuestion)

\* lines 109 and 111: the filter of the list comprehensions
KeepEntry(x) == IsDict(x) /\ HasKey(x, KQuestion) /\ HasKey(x, KAnswer)

FilterEntries(v) == SelectSeq(v, KeepEntry)

\* lines 106-109 taking a single pair for a list of one pair
LevelOf_WrapsValue(qa, k) ==
    LET v == DictGet(qa, k) IN
    IF IsList(v) THEN FilterEntries(v.a)
    ELSE IF IsDict(v) THEN FilterEntries(<<v>>) ELSE <<>>

\* lines 106-109: one tier of a dict response
LevelOf(qa, k) ==
    LET v == DictGet(qa, k) IN
    IF IsList(v) THEN FilterEntries(v.a) ELSE <<>>

EmptyLevels == [basic |-> <<>>, intermediate |-> <<>>, expert |-> <<>>]

\* lines 104-113 without the list branch of lines 110-111
Levels_DictOnly(qa) ==
    IF IsDict(qa)
    THEN [ok |-> TRUE,
          levels |-> [basic |-> LevelOf(qa, KBasic),
                      intermediate |-> LevelOf(qa, KIntermediate),
                      expert |-> LevelOf(qa, KExpert)]]
    ELSE [ok |-> FALSE, levels |-> EmptyLevels]

\* lines 104-113; ok is FALSE where the code raises ValueError
Levels(qa) ==
    IF IsDict(qa)
    THEN [ok |-> TRUE,
          levels |-> [basic |-> LevelOf(qa, KBasic),
                      intermediate |-> LevelOf(qa, KIntermediate),
                      expert |-> LevelOf(qa, KExpert)]]
    ELSE IF IsList(qa)
    THEN [ok |-> TRUE, levels |-> [EmptyLevels EXCEPT !.basic = FilterEntries(qa.a)]]
    ELSE [ok |-> FALSE, levels |-> EmptyLevels]

\* line 116 without the check
AnyLevel_Always(levels) == TRUE

\* line 116: any(levels.values())
AnyLevel(levels) ==
    levels.basic # <<>> \/ levels.intermediate # <<>> \/ levels.expert # <<>>

\* lines 76-118 on the aggregated text: the levels returned, or the
\* exception raised
\* (JSONDecodeError by json.loads, ValueError by lines 113 and 117)
NormalizeText(content) ==
    LET parsed == ParseCleaned(Cleaned(content)) IN
    IF ~parsed.ok
    THEN [ok |-> FALSE, exc |-> "JSONDecodeError", levels |-> EmptyLevels]
    ELSE LET l == Levels(parsed.v) IN
         IF l.ok /\ AnyLevel(l.levels)
         THEN [ok |-> TRUE, exc |-> "none", levels |-> l.levels]
         ELSE [ok |-> FALSE, exc |-> "ValueError", levels |-> EmptyLevels]

\* lines 63-118 on a response
Normalize(resp) == NormalizeText(Content(resp))

(***************************************************************************)
(* Bounds and inputs                                                       *)
(***************************************************************************)
\* calls of run in one behaviour
MaxRuns == 2
\* entries of one model response of the generated input family
MaxEntries == 3
\* parts of one model response of the fragment family
MaxParts == 3
\* HTTP requests in one behaviour
MaxRequests == 3

SeqsUpTo(S, n) == UNION {[1..m -> S] : m \in 0..n}

\* Arguments of run: None, "", " ", " Dev " and "QA"
JobTitles ==
    {None, Str(<<>>), Str(<<" ">>), Str(<<" ", "Dev", " ">>), Str(<<"QA">>)}
JobDescriptions == {None, Str(<<" ", " ">>), Str(<<"APIs", " ">>)}

\* settings.gemini_api_key: a key, or None (config.py turns "" into None)
ApiKeys == {None, Str(<<"key">>)}

\* Entries of the arrays of a model response
QA(q, a) == Obj(<<Pair(KQuestion, q), Pair(KAnswer, a)>>)
EGood1 == QA(Str(<<"Q1">>), Str(<<"A1">>))
EGood2 == QA(Str(<<" ", "Q2">>), Str(<<"A2">>))
ENoAnswer == Obj(<<Pair(KQuestion, Str(<<"Q3">>))>>)
ENoQuestion == Obj(<<Pair(KAnswer, Str(<<"A4">>))>>)
ENotDict == Arr(<<Str(KQuestion), Str(KAnswer)>>)
EEmptyQuestion == QA(Str(<<>>), Str(<<"A5">>))
EBlankQuestion == QA(Str(<<" ">>), Str(<<"A6">>))
ENumQuestion == QA(Num("7"), None)
ENullQuestion == QA(None, Str(<<"A7">>))

Entries == {EGood1, EGood2, ENoAnswer, ENoQuestion, ENotDict, ENumQuestion}

\* A leveled object: the three tiers b, i, e; an empty tier is written as
\* [] or, when omit is TRUE, left out.
Tier(k, v, omit) == IF omit /\ v = <<>> THEN <<>> ELSE <<Pair(k, Arr(v))>>
Leveled(b, i, e, omit) ==
    Obj(Tier(KBasic, b, omit) \o Tier(KIntermediate, i, omit)
        \o Tier(KExpert, e, omit))

\* all leveled objects with at most n entries in total
LeveledObjects(n) ==
    {Leveled(SubSeq(s, 1, c1), SubSeq(s, c1 + 1, c2), SubSeq(s, c2 + 1, Len(s)),
             omit) :
        <<s, c1, c2, omit>> \in
            {x \in SeqsUpTo(Entries, n) \X (0..n) \X (0..n) \X BOOLEAN :
                x[2] <= x[3] /\ x[3] <= Len(x[1])}}

\* all bare arrays with at most n entries
BareArrays(n) == {Arr(s) : s \in SeqsUpTo(Entries, n)}

GoodLeveled == Leveled(<<EGood1>>, <<ENoAnswer>>, <<EGood2, EBlankQuestion>>, FALSE)
OnlyExpert == Leveled(<<>>, <<ENoQuestion>>, <<EGood1>>, TRUE)
NumLeveled == Leveled(<<ENumQuestion>>, <<EEmptyQuestion>>, <<>>, FALSE)
\* a leveled object whose keys are not in tier order
PermutedLeveled ==
    Obj(<<Pair(KExpert, Arr(<<EGood2, EGood1>>)),
          Pair(KBasic, Arr(<<EGood1, EBlankQuestion>>)),
          Pair(KIntermediate, Arr(<<EGood2>>))>>)
\* a leveled object whose only question is whitespace
BlankLeveled == Leveled(<<EBlankQuestion>>, <<>>, <<>>, FALSE)

\* a leveled object with questions that are null, empty and whitespace
FalsyLeveled ==
    Leveled(<<ENullQuestion, EGood2>>, <<EEmptyQuestion>>,
            <<EBlankQuestion, EGood1>>, FALSE)

\* objects with a key that is no tier, a tier whose value is no list and a
\* tier of at most n entries
KAdvanced == <<"advanced">>
NonLists == {None, JTrue, Num("7"), Str(<<"Q1">>), EGood1}
OddObjects(n) ==
    {Obj(<<Pair(KAdvanced, x), Pair(k[1], v), Pair(k[2], Arr(s))>>) :
        <<x, k, v, s>> \in
            {Str(<<"Q1">>), Arr(<<EGood1>>)}
            \X {kk \in {KBasic, KIntermediate, KExpert}
                       \X {KBasic, KIntermediate, KExpert} : kk[1] # kk[2]}
            \X NonLists
            \X SeqsUpTo({EGood1, ENoAnswer}, n)}

\* A model output: the JSON value the model wrote (None when the output is
\* not the serialisation of one value), the response that carries it, and
\* the text the model wrapped in a fence or in prose (the whole text when
\* it wrapped nothing).
Output(json, kind, resp) ==
    [json |-> json, kind |-> kind, resp |-> resp, inner |-> resp.text]
JsonOutput(v, kind) == Output(v, kind, Resp(JsonDumps(v), <<>>))
TextOutput(kind, text) == Output(None, kind, Resp(text, <<>>))
Wrapped(kind, inner, text) ==
    [json |-> None, kind |-> kind, resp |-> Resp(text, <<>>), inner |-> inner]

Fenced(x) == <<FENCE, Word("json"), NL>> \o x \o <<NL, FENCE>>

\* x in a fence: with or without a language tag, the closing fence on a
\* line of its own or right after x
FenceTags == {<<>>, <<Word("json")>>}
FenceCloses == {<<NL, FENCE>>, <<FENCE>>}
Fence(tag, x, close) == <<FENCE>> \o tag \o <<NL>> \o x \o close

\* a JSON text on several lines
Pretty(x) ==
    IF Len(x) < 2 THEN x
    ELSE <<x[1], NL>> \o SubSeq(x, 2, Len(x) - 1) \o <<NL, x[Len(x)]>>

\* the JSON texts of the values with at most n entries
JsonTexts(n) ==
    LET vs == LeveledObjects(n) \cup BareArrays(n)
              \cup {GoodLeveled, OnlyExpert, Arr(<<EGood2, EGood1>>),
                    Str(<<"Q1">>), None}
    IN {JsonDumps(v) : v \in vs} \cup {Pretty(JsonDumps(v)) : v \in vs}

FencedOutputs(n) ==
    {Wrapped("fenced", j, Fence(tag, j, close)) :
        j \in JsonTexts(n), tag \in FenceTags, close \in FenceCloses}
InProse(x) == <<Word("Here"), NL>> \o x \o <<NL, Word("Bye")>>

\* Prose around a JSON text: plain words, or words with a placeholder in
\* braces such as "Use {name}"
PlainBefore == <<Word("Here"), CL, NL>>
PlainAfter == <<NL, Word("Bye")>>
ProseBefores == {<<>>, PlainBefore, <<Word("Use"), LB, Word("name"), RB, NL>>}
ProseAfters == {<<>>, PlainAfter, <<NL, Word("Fill"), LB, Word("name"), RB>>}
Prose(before, x, after) == before \o x \o after

\* the JSON objects with at most n entries, in prose
ObjectTexts(n) ==
    {JsonDumps(v) : v \in LeveledObjects(n) \cup {GoodLeveled, OnlyExpert}}
ProseOutputs(n) ==
    {Wrapped("prose", j, Prose(p[1], j, p[2])) :
        j \in ObjectTexts(n),
        p \in (ProseBefores \X ProseAfters) \ {<< <<>>, <<>> >>}}

\* Fragments of a response delivered in parts: the two halves of a JSON
\* text, a newline, and a part without text
FragHead == SubSeq(JsonDumps(Arr(<<EGood1>>)), 1, 3)
FragTail ==
    SubSeq(JsonDumps(Arr(<<EGood1>>)), 4, Len(JsonDumps(Arr(<<EGood1>>))))
FragTexts == {<<>>, <<NL>>, FragHead, FragTail}

\* the parts s over one candidate, or over two candidates split at c
Candidates(s, c) ==
    IF c = Len(s) + 1 THEN <<s>> ELSE <<SubSeq(s, 1, c), SubSeq(s, c + 1, Len(s))>>

\* responses in at most n parts; resp.text is empty, the text of the
\* first two parts, or another text
FragmentOutputs(n) ==
    {Output(None, "parts", Resp(text, Candidates(x[1], x[2]))) :
        x \in {y \in SeqsUpTo(FragTexts, n) \X (0..(n + 1)) :
                  y[2] <= Len(y[1]) + 1},
        text \in {<<>>, FragHead \o FragTail, <<Word("other")>>}}

\* the JSON arrays with at most n entries, in prose without braces
ArrayTexts(n) ==
    {JsonDumps(v) : v \in BareArrays(n) \cup {Arr(<<EGood1, EGood2>>)}}
ProseArrayOutputs(n) ==
    {Wrapped("prose_array", j, Prose(PlainBefore, j, after)) :
        j \in ArrayTexts(n), after \in {<<>>, PlainAfter}}

\* The outputs a run may receive
RunOutputs ==
    {JsonOutput(GoodLeveled, "leveled"),
     JsonOutput(OnlyExpert, "leveled"),
     JsonOutput(NumLeveled, "leveled"),
     JsonOutput(PermutedLeveled, "leveled"),
     JsonOutput(BlankLeveled, "leveled"),
     JsonOutput(FalsyLeveled, "leveled"),
     JsonOutput(Leveled(<<ENoAnswer>>, <<>>, <<ENotDict>>, FALSE), "leveled"),
     JsonOutput(Arr(<<EGood2, ENoQuestion, EGood1>>), "array"),
     JsonOutput(Arr(<<ENoAnswer>>), "array"),
     JsonOutput(Str(<<"Q1">>), "scalar"),
     TextOutput("text", <<Word("not"), Word("json"), Word("at"), Word("all")>>),
     TextOutput("text", <<>>),
     Wrapped("fenced", JsonDumps(OnlyExpert), Fenced(JsonDumps(OnlyExpert))),
     Wrapped("prose", JsonDumps(OnlyExpert), InProse(JsonDumps(OnlyExpert))),
     Output(None, "parts",
            Resp(<<>>, << <<JsonDumps(OnlyExpert), <<>>, <<NL>>>>, <<>> >>))}

\* The outputs the normalizer is checked on
NormOutput(out) ==
    \/ out \in {JsonOutput(v, "leveled") : v \in LeveledObjects(MaxEntries)}
    \/ out \in {JsonOutput(v, "array") : v \in BareArrays(MaxEntries)}
    \/ out \in {JsonOutput(v, "scalar") :
                   v \in {Str(<<"Q1">>), Num("7"), None, JTrue}}
    \/ out \in RunOutputs
    \/ out \in FencedOutputs(MaxEntries - 1)
    \/ out \in ProseOutputs(MaxEntries - 1)
    \/ out \in ProseArrayOutputs(MaxEntries - 1)
    \/ out \in FragmentOutputs(MaxParts)
    \/ out \in {JsonOutput(v, "odd") : v \in OddObjects(MaxEntries - 1)}

(***************************************************************************)
(* State                                                                   *)
(***************************************************************************)
VARIABLES
    apiKey,         \* settings.gemini_api_key
    pc,             \* position of the current call of run
    runs,           \* number of calls of run so far
    reqTitle,       \* run's argument job_title
    reqDescription, \* run's argument job_description
    jobTitle,       \* run's local job_title after line 125
    jobDescription, \* run's local job_description after line 126
    output,         \* what the model returned (resp, and the JSON it wrote)
    content,        \* generate_qa's local content after line 74
    qaByLevel,      \* run's local qa_by_level
    flatQs,         \* run's local flat_qs
    pending,        \* records added to the open session, not yet committed
    sessLog,        \* operations on the session of the current save
    db,             \* committed rows of interview_questions
    nextId,         \* next autoincrement id
    outcome,        \* how the current call of run ended
    result,         \* the dict run returned
    exc,            \* the exception caught at line 121 of generate_qa
    genCalls,       \* calls of generate_qa in the current run
    modelCalls,     \* calls of generate_content in the current run
    saveCalls,      \* calls of the save callback in the current run
    dbAtStart,      \* db when the current run was called
    requests,       \* HTTP requests handled so far
    httpReq,        \* the HTTP request being handled
    httpResp,       \* the last HTTP response
    acked,          \* the records POST /save has answered 201 for
    calls           \* the locals of each of the concurrent calls of run

vars ==
    <<apiKey, pc, runs, reqTitle, reqDescription, jobTitle, jobDescription,
      output, content, qaByLevel, flatQs, pending, sessLog, db, nextId,
      outcome, result, exc, genCalls, modelCalls, saveCalls, dbAtStart,
      requests, httpReq, httpResp, acked, calls>>

httpVars == <<requests, httpReq, httpResp, acked>>

NoOutput == Output(None, "none", Resp(<<>>, <<>>))
NoResult == [id |-> 0]

\* An HTTP request: the route, the fields of the JSON body (None when
\* absent) and the query arguments limit and job_title (None when absent)
Request(route, title, description, questions, qa, limit, filter) ==
    [route |-> route, job_title |-> title, job_description |-> description,
     questions |-> questions, qa |-> qa, limit |-> limit, filter |-> filter]

\* An HTTP response: the status, the id of the JSON body (0 when it has
\* none), the items of a list body and the exception behind an error
Response(route, status, id, items, error) ==
    [route |-> route, status |-> status, id |-> id, items |-> items,
     error |-> error]

\* the concurrent calls of run, and the locals of a call not yet made
Calls == {1, 2}
NoCall ==
    [pc |-> "idle", reqTitle |-> None, reqDescription |-> None,
     job_title |-> <<>>, job_description |-> <<>>, output |-> NoOutput,
     qa_by_level |-> EmptyLevels, flat_qs |-> <<>>, pending |-> <<>>,
     outcome |-> "none", result |-> NoResult]
NoCalls == [t \in Calls |-> NoCall]

NoRequest == Request("none", None, None, None, None, None, None)
NoResponse == Response("none", 0, 0, <<>>, "none")

HttpInit ==
    /\ requests = 0
    /\ httpReq = NoRequest
    /\ httpResp = NoResponse
    /\ acked = <<>>

RunLocalsInit ==
    /\ jobTitle = <<>>
    /\ jobDescription = <<>>
    /\ output = NoOutput
    /\ content = <<>>
    /\ qaByLevel = EmptyLevels
    /\ flatQs = <<>>
    /\ pending = <<>>
    /\ sessLog = <<>>
    /\ outcome = "none"
    /\ result = NoResult
    /\ exc = "none"
    /\ genCalls = 0
    /\ modelCalls = 0
    /\ saveCalls = 0

Init ==
    /\ apiKey \in ApiKeys
    /\ pc = "idle"
    /\ runs = 0
    /\ reqTitle = None
    /\ reqDescription = None
    /\ RunLocalsInit
    /\ db = <<>>
    /\ nextId = 1
    /\ dbAtStart = <<>>
    /\ HttpInit
    /\ calls = NoCalls

\* the run ends by raising e
Raise(e) == pc' = "done" /\ outcome' = e

(***************************************************************************)
(* agent.py run, lines 124-128                                             *)
(***************************************************************************)
\* (x or "").strip() for x a string or None
OrEmptyStrip(x) == IF Truthy(x) THEN Strip(x.s) ELSE <<>>

\* line 127 without the strip of lines 125-126
RequestRejected_NoStrip(jt, jd) == ~Truthy(jt) \/ ~Truthy(jd)

\* line 127
RequestRejected(jt, jd) == OrEmptyStrip(jt) = <<>> \/ OrEmptyStrip(jd) = <<>>

RunBegin(jt, jd) ==
    /\ pc \in {"idle", "done"}
    /\ runs < MaxRuns
    /\ runs' = runs + 1
    /\ reqTitle' = jt
    /\ reqDescription' = jd
    /\ dbAtStart' = db
    /\ output' = NoOutput
    /\ content' = <<>>
    /\ qaByLevel' = EmptyLevels
    /\ flatQs' = <<>>
    /\ pending' = <<>>
    /\ sessLog' = <<>>
    /\ result' = NoResult
    /\ exc' = "none"
    /\ modelCalls' = 0
    /\ saveCalls' = 0
    /\ jobTitle' = OrEmptyStrip(jt)
    /\ jobDescription' = OrEmptyStrip(jd)
    /\ IF RequestRejected(jt, jd)
       THEN Raise("ValueError") /\ genCalls' = 0
       ELSE pc' = "generate_qa" /\ outcome' = "none" /\ genCalls' = 1
    /\ UNCHANGED <<apiKey, db, nextId>>
    /\ UNCHANGED <<httpVars, calls>>

(***************************************************************************)
(* agent.py generate_qa, lines 37-122                                      *)
(***************************************************************************)
\* lines 37-38 raising a generic error
NoApiKey_ValueError ==
    /\ pc = "generate_qa"
    /\ ~Truthy(apiKey)
    /\ Raise("ValueError")
    /\ UNCHANGED <<apiKey, content, runs, reqTitle, reqDescription, jobTitle,
                   exc, genCalls,
                   jobDescription, output, qaByLevel, flatQs, pending, sessLog,
                   db, nextId, result, modelCalls, saveCalls, dbAtStart>>
    /\ UNCHANGED <<httpVars, calls>>

\* lines 37-38
NoApiKey ==
    /\ pc = "generate_qa"
    /\ ~Truthy(apiKey)
    /\ Raise("AIUnavailableError")
    /\ UNCHANGED <<apiKey, content, runs, reqTitle, reqDescription, jobTitle,
                   exc, genCalls,
                   jobDescription, output, qaByLevel, flatQs, pending, sessLog,
                   db, nextId, result, modelCalls, saveCalls, dbAtStart>>
    /\ UNCHANGED <<httpVars, calls>>

\* lines 41-61 with one more attempt after a failed call
ModelCallFails_Retry ==
    /\ pc = "generate_qa"
    /\ Truthy(apiKey)
    /\ modelCalls' = modelCalls + 2
    /\ pc' = "except"
    /\ exc' = "APIError"
    /\ UNCHANGED <<apiKey, content, runs, reqTitle, reqDescription, jobTitle,
                   genCalls, outcome,
                   jobDescription, output, qaByLevel, flatQs, pending, sessLog,
                   db, nextId, result, saveCalls, dbAtStart>>
    /\ UNCHANGED <<httpVars, calls>>

\* lines 41-61, generate_content raises
ModelCallFails ==
    /\ pc = "generate_qa"
    /\ Truthy(apiKey)
    /\ modelCalls' = modelCalls + 1
    /\ pc' = "except"
    /\ exc' = "APIError"
    /\ UNCHANGED <<apiKey, content, runs, reqTitle, reqDescription, jobTitle,
                   genCalls, outcome,
                   jobDescription, output, qaByLevel, flatQs, pending, sessLog,
                   db, nextId, result, saveCalls, dbAtStart>>
    /\ UNCHANGED <<httpVars, calls>>

\* lines 41-61, generate_content returns resp
ModelCallReturns(out) ==
    /\ pc = "generate_qa"
    /\ Truthy(apiKey)
    /\ modelCalls' = modelCalls + 1
    /\ output' = out
    /\ pc' = "aggregate"
    /\ UNCHANGED <<apiKey, content, runs, reqTitle, reqDescription, jobTitle,
                   exc, genCalls,
                   jobDescription, qaByLevel, flatQs, pending, sessLog, db,
                   nextId, outcome, result, saveCalls, dbAtStart>>
    /\ UNCHANGED <<httpVars, calls>>

\* lines 63-74: the text of the response is aggregated
Aggregate ==
    /\ pc = "aggregate"
    /\ content' = Content(output.resp)
    /\ pc' = "normalize"
    /\ UNCHANGED <<apiKey, runs, reqTitle, reqDescription, jobTitle,
                   exc, genCalls,
                   jobDescription, output, qaByLevel, flatQs, pending, sessLog,
                   db, nextId, outcome, result, modelCalls, saveCalls,
                   dbAtStart>>
    /\ UNCHANGED <<httpVars, calls>>

\* lines 76-118: the text is normalized and generate_qa returns
NormalizeOk ==
    /\ pc = "normalize"
    /\ NormalizeText(content).ok
    /\ qaByLevel' = NormalizeText(content).levels
    /\ pc' = "flatten"
    /\ UNCHANGED <<apiKey, content, runs, reqTitle, reqDescription, jobTitle,
                   exc, genCalls,
                   jobDescription, output, flatQs, pending, sessLog, db,
                   nextId, outcome, result, modelCalls, saveCalls, dbAtStart>>
    /\ UNCHANGED <<httpVars, calls>>

\* lines 76-117: the normalization raises
NormalizeFails ==
    /\ pc = "normalize"
    /\ ~NormalizeText(content).ok
    /\ pc' = "except"
    /\ exc' = NormalizeText(content).exc
    /\ UNCHANGED <<apiKey, content, runs, reqTitle, reqDescription, jobTitle,
                   genCalls, outcome,
                   jobDescription, output, qaByLevel, flatQs, pending, sessLog,
                   db, nextId, result, modelCalls, saveCalls, dbAtStart>>
    /\ UNCHANGED <<httpVars, calls>>

\* lines 121-122 falling back to stock questions instead of raising
WrapException_Fallback ==
    /\ pc = "except"
    /\ qaByLevel' = [EmptyLevels EXCEPT !.basic = <<EGood1>>]
    /\ pc' = "flatten"
    /\ UNCHANGED <<apiKey, content, runs, reqTitle, reqDescription, jobTitle,
                   exc, genCalls,
                   jobDescription, output, flatQs, pending, sessLog, db,
                   nextId, outcome, result, modelCalls, saveCalls, dbAtStart>>
    /\ UNCHANGED <<httpVars, calls>>

\* lines 121-122: the exception is wrapped and generate_qa, then run, ends
WrapException ==
    /\ pc = "except"
    /\ Raise("AIUnavailableError")
    /\ UNCHANGED <<apiKey, content, runs, reqTitle, reqDescription, jobTitle,
                   exc, genCalls,
                   jobDescription, output, qaByLevel, flatQs, pending, sessLog,
                   db, nextId, result, modelCalls, saveCalls, dbAtStart>>
    /\ UNCHANGED <<httpVars, calls>>

(***************************************************************************)
(* agent.py run, lines 131-137                                             *)
(***************************************************************************)
\* the tiers walked from expert to basic
AllEntries_Reversed(levels) ==
    levels.expert \o levels.intermediate \o levels.basic

AllEntries(levels) == levels.basic \o levels.intermediate \o levels.expert

\* line 135 raises AttributeError when x.get("question") is truthy and has
\* no strip method
QuestionStrips(x) ==
    LET q == DictGet(x, KQuestion) IN ~Truthy(q) \/ IsStr(q)

\* line 135 without the strip
QuestionOf_Untrimmed(x) ==
    IF Truthy(DictGet(x, KQuestion)) THEN DictGet(x, KQuestion).s ELSE <<>>

\* line 135: (x.get("question") or "").strip()
QuestionOf(x) == OrEmptyStrip(DictGet(x, KQuestion))

RECURSIVE FlatQuestions(_)
FlatQuestions(entries) ==
    IF entries = <<>> THEN <<>>
    ELSE LET q == QuestionOf(Head(entries)) IN
         IF q # <<>> THEN <<q>> \o FlatQuestions(Tail(entries))
         ELSE FlatQuestions(Tail(entries))

FlattenOk ==
    /\ pc = "flatten"
    /\ \A i \in 1..Len(AllEntries(qaByLevel)) :
          QuestionStrips(AllEntries(qaByLevel)[i])
    /\ flatQs' = FlatQuestions(AllEntries(qaByLevel))
    /\ pc' = "save"
    /\ UNCHANGED <<apiKey, content, runs, reqTitle, reqDescription, jobTitle,
                   exc, genCalls,
                   jobDescription, output, qaByLevel, pending, sessLog, db,
                   nextId, outcome, result, modelCalls, saveCalls, dbAtStart>>
    /\ UNCHANGED <<httpVars, calls>>

FlattenFails ==
    /\ pc = "flatten"
    /\ \E i \in 1..Len(AllEntries(qaByLevel)) :
          ~QuestionStrips(AllEntries(qaByLevel)[i])
    /\ Raise("AttributeError")
    /\ UNCHANGED <<apiKey, content, runs, reqTitle, reqDescription, jobTitle,
                   exc, genCalls,
                   jobDescription, output, qaByLevel, flatQs, pending, sessLog,
                   db, nextId, result, modelCalls, saveCalls, dbAtStart>>
    /\ UNCHANGED <<httpVars, calls>>

(***************************************************************************)
(* app.py _save_record, lines 79-100, inside database.py get_session       *)
(***************************************************************************)
LevelsObj(levels) ==
    Obj(<<Pair(KBasic, Arr(levels.basic)),
          Pair(KIntermediate, Arr(levels.intermediate)),
          Pair(KExpert, Arr(levels.expert))>>)

StrList(ss) == Arr([i \in 1..Len(ss) |-> Str(ss[i])])

\* the row that line 88 builds; id 0 until the flush assigns one
NewRecord(title, description, questions, qa) ==
    [id |-> 0,
     job_title |-> title,
     job_description |-> description,
     questions |-> JsonDumps(StrList(questions)),
     qa |-> JsonDumps(LevelsObj(qa))]

\* app.py lines 85-94 and database.py line 86: the callback is entered,
\* the session is opened and the record added
SaveBegin ==
    /\ pc = "save"
    /\ saveCalls' = saveCalls + 1
    /\ sessLog' = <<"open", "add">>
    /\ pending' = <<NewRecord(jobTitle, jobDescription, flatQs, qaByLevel)>>
    /\ pc' = "flush"
    /\ UNCHANGED <<apiKey, content, runs, reqTitle, reqDescription, jobTitle,
                   exc, genCalls,
                   jobDescription, output, qaByLevel, flatQs, db, nextId,
                   outcome, result, modelCalls, dbAtStart>>
    /\ UNCHANGED <<httpVars, calls>>

\* app.py line 95 on a session that commits each statement
FlushOk_Autocommit ==
    /\ pc = "flush"
    /\ pending' = <<[pending[1] EXCEPT !.id = nextId]>>
    /\ db' = Append(db, [pending[1] EXCEPT !.id = nextId])
    /\ nextId' = nextId + 1
    /\ sessLog' = Append(sessLog, "flush")
    /\ pc' = "commit"
    /\ UNCHANGED <<apiKey, content, runs, reqTitle, reqDescription, jobTitle,
                   exc, genCalls,
                   jobDescription, output, qaByLevel, flatQs, outcome,
                   result, modelCalls, saveCalls, dbAtStart>>
    /\ UNCHANGED <<httpVars, calls>>

\* app.py line 95: the flush inserts the row and the id is generated
FlushOk ==
    /\ pc = "flush"
    /\ pending' = <<[pending[1] EXCEPT !.id = nextId]>>
    /\ nextId' = nextId + 1
    /\ sessLog' = Append(sessLog, "flush")
    /\ pc' = "commit"
    /\ UNCHANGED <<apiKey, content, runs, reqTitle, reqDescription, jobTitle,
                   exc, genCalls,
                   jobDescription, output, qaByLevel, flatQs, db, outcome,
                   result, modelCalls, saveCalls, dbAtStart>>
    /\ UNCHANGED <<httpVars, calls>>

\* run catching the failure of the callback as a failure of generation
FlushFails_AsUnavailable ==
    /\ pc = "flush"
    /\ pending' = <<>>
    /\ sessLog' = sessLog \o <<"flush_raised", "rollback", "close">>
    /\ Raise("AIUnavailableError")
    /\ UNCHANGED <<apiKey, content, runs, reqTitle, reqDescription, jobTitle,
                   exc, genCalls,
                   jobDescription, output, qaByLevel, flatQs, db, nextId,
                   result, modelCalls, saveCalls, dbAtStart>>
    /\ UNCHANGED <<httpVars, calls>>

\* app.py line 95 raises; database.py lines 90-94 roll back and close
FlushFails ==
    /\ pc = "flush"
    /\ pending' = <<>>
    /\ sessLog' = sessLog \o <<"flush_raised", "rollback", "close">>
    /\ Raise("SaveError")
    /\ UNCHANGED <<apiKey, content, runs, reqTitle, reqDescription, jobTitle,
                   exc, genCalls,
                   jobDescription, output, qaByLevel, flatQs, db, nextId,
                   result, modelCalls, saveCalls, dbAtStart>>
    /\ UNCHANGED <<httpVars, calls>>

\* run echoing its arguments as they were passed
RunResult_RawFields(record) ==
    [id |-> record.id,
     job_title |-> reqTitle.s,
     job_description |-> reqDescription.s,
     questions |-> flatQs,
     qa |-> IF Truthy(LevelsObj(record.qa)) THEN record.qa ELSE qaByLevel,
     source |-> "gemini"]

\* lines 139-147 of agent.py: the dict run returns, from the dict the
\* callback returned (app.py lines 96-100)
RunResult(record) ==
    [id |-> record.id,
     job_title |-> jobTitle,
     job_description |-> jobDescription,
     questions |-> flatQs,
     qa |-> IF Truthy(LevelsObj(record.qa)) THEN record.qa ELSE qaByLevel,
     source |-> "gemini"]

\* the save overwriting the stored record of the same job title
CommitOk_Upsert ==
    /\ pc = "commit"
    /\ db' = IF \E i \in 1..Len(db) : db[i].job_title = jobTitle
             THEN [i \in 1..Len(db) |->
                     IF db[i].job_title = jobTitle THEN pending[1] ELSE db[i]]
             ELSE db \o pending
    /\ pending' = <<>>
    /\ sessLog' = sessLog \o <<"commit", "close">>
    /\ result' = RunResult([id |-> pending[1].id, qa |-> qaByLevel])
    /\ pc' = "done"
    /\ outcome' = "ok"
    /\ UNCHANGED <<apiKey, content, runs, reqTitle, reqDescription, jobTitle,
                   exc, genCalls,
                   jobDescription, output, qaByLevel, flatQs, nextId,
                   modelCalls, saveCalls, dbAtStart>>
    /\ UNCHANGED <<httpVars, calls>>

\* database.py lines 89 and 94: commit and close; then run returns
CommitOk ==
    /\ pc = "commit"
    /\ db' = db \o pending
    /\ pending' = <<>>
    /\ sessLog' = sessLog \o <<"commit", "close">>
    /\ result' = RunResult([id |-> pending[1].id, qa |-> qaByLevel])
    /\ pc' = "done"
    /\ outcome' = "ok"
    /\ UNCHANGED <<apiKey, content, runs, reqTitle, reqDescription, jobTitle,
                   exc, genCalls,
                   jobDescription, output, qaByLevel, flatQs, nextId,
                   modelCalls, saveCalls, dbAtStart>>
    /\ UNCHANGED <<httpVars, calls>>

\* database.py without the rollback of line 91
CommitFails_NoRollback ==
    /\ pc = "commit"
    /\ pending' = <<>>
    /\ sessLog' = sessLog \o <<"commit_raised", "close">>
    /\ Raise("SaveError")
    /\ UNCHANGED <<apiKey, content, runs, reqTitle, reqDescription, jobTitle,
                   exc, genCalls,
                   jobDescription, output, qaByLevel, flatQs, db, nextId,
                   result, modelCalls, saveCalls, dbAtStart>>
    /\ UNCHANGED <<httpVars, calls>>

\* database.py line 89 raises; lines 90-94 roll back and close
CommitFails ==
    /\ pc = "commit"
    /\ pending' = <<>>
    /\ sessLog' = sessLog \o <<"commit_raised", "rollback", "close">>
    /\ Raise("SaveError")
    /\ UNCHANGED <<apiKey, content, runs, reqTitle, reqDescription, jobTitle,
                   exc, genCalls,
                   jobDescription, output, qaByLevel, flatQs, db, nextId,
                   result, modelCalls, saveCalls, dbAtStart>>
    /\ UNCHANGED <<httpVars, calls>>

Next ==
    \/ \E jt \in JobTitles, jd \in JobDescriptions : RunBegin(jt, jd)
    \/ NoApiKey
    \/ ModelCallFails
    \/ \E out \in RunOutputs : ModelCallReturns(out)
    \/ Aggregate
    \/ NormalizeOk
    \/ NormalizeFails
    \/ WrapException
    \/ FlattenOk
    \/ FlattenFails
    \/ SaveBegin
    \/ FlushOk
    \/ FlushFails
    \/ CommitOk
    \/ CommitFails

Spec == Init /\ [][Next]_vars

(***************************************************************************)
(* The normalizer on its own: generate_qa from the response on, over the   *)
(* generated family of model outputs                                       *)
(***************************************************************************)
InitNorm ==
    /\ apiKey = Str(<<"key">>)
    /\ pc = "aggregate"
    /\ runs = 1
    /\ reqTitle = Str(<<"QA">>)
    /\ reqDescription = Str(<<"APIs", " ">>)
    /\ jobTitle = <<"QA">>
    /\ jobDescription = <<"APIs">>
    /\ NormOutput(output)
    /\ content = <<>>
    /\ qaByLevel = EmptyLevels
    /\ flatQs = <<>>
    /\ pending = <<>>
    /\ sessLog = <<>>
    /\ outcome = "none"
    /\ result = NoResult
    /\ exc = "none"
    /\ genCalls = 1
    /\ modelCalls = 1
    /\ saveCalls = 0
    /\ db = <<>>
    /\ nextId = 1
    /\ dbAtStart = <<>>
    /\ HttpInit
    /\ calls = NoCalls

NextNorm ==
    \/ Aggregate
    \/ NormalizeOk
    \/ NormalizeFails
    \/ WrapException
    \/ FlattenOk
    \/ FlattenFails

SpecNorm == InitNorm /\ [][NextNorm]_vars

(***************************************************************************)
(* app.py: the routes /agent, /save and /get                               *)
(***************************************************************************)
\* the variables of run and generate_qa
agentVars ==
    <<apiKey, pc, runs, reqTitle, reqDescription, jobTitle, jobDescription,
      output, content, qaByLevel, flatQs, pending, sessLog, outcome, result,
      exc, genCalls, modelCalls, saveCalls, dbAtStart>>

\* agent.py line 124: the parameters of run
RunParams == {"job_title", "job_description"}

\* app.py line 112: the keyword arguments of the call of run
AgentCallKeywords == {"with_answers"}

\* Python binds the call only when run has a parameter for each keyword
CallBinds == AgentCallKeywords \subseteq RunParams

\* app.py lines 113-117
AgentStatus(o) ==
    CASE o = "ok" -> 201
      [] o = "AIUnavailableError" -> 503
      [] OTHER -> 500

\* run on a response out: the outcome and what it hands to the callback
RunSummary(out) ==
    LET n == Normalize(out.resp) IN
    IF ~n.ok
    THEN [outcome |-> "AIUnavailableError", questions |-> <<>>,
          qa |-> EmptyLevels]
    ELSE IF \E i \in 1..Len(AllEntries(n.levels)) :
               ~QuestionStrips(AllEntries(n.levels)[i])
    THEN [outcome |-> "AttributeError", questions |-> <<>>, qa |-> EmptyLevels]
    ELSE [outcome |-> "ok", questions |-> FlatQuestions(AllEntries(n.levels)),
          qa |-> n.levels]

\* lines 112-117 on a call of run that ended as r
RunCalled(jt, jd, r) ==
    /\ httpResp' =
         Response("agent", AgentStatus(r.outcome),
                  IF r.outcome = "ok" THEN nextId ELSE 0, <<>>,
                  IF r.outcome = "ok" THEN "none" ELSE r.outcome)
    /\ IF r.outcome = "ok"
       THEN /\ db' = Append(db,
                 [NewRecord(OrEmptyStrip(jt), OrEmptyStrip(jd),
                            r.questions, r.qa) EXCEPT !.id = nextId])
            /\ nextId' = nextId + 1
       ELSE UNCHANGED <<db, nextId>>

\* POST /agent, lines 102-117
agent_run(jt, jd) ==
    /\ requests < MaxRequests
    /\ requests' = requests + 1
    /\ httpReq' = Request("agent", jt, jd, None, None, None, None)
    /\ IF RequestRejected(jt, jd)
       THEN /\ httpResp' = Response("agent", 400, 0, <<>>, "none")
            /\ UNCHANGED <<db, nextId>>
       ELSE IF ~CallBinds
       THEN /\ httpResp' =
                 Response("agent", AgentStatus("TypeError"), 0, <<>>, "TypeError")
            /\ UNCHANGED <<db, nextId>>
       ELSE \E out \in RunOutputs : RunCalled(jt, jd, RunSummary(out))
    /\ UNCHANGED acked
    /\ UNCHANGED <<agentVars, calls>>

\* the JSON body of a POST /save
SaveBody(title, description, questions, qa) ==
    Request("save", title, description, questions, qa, None, None)

SaveBodies ==
    {SaveBody(Str(<<" ", "Dev", " ">>), Str(<<"APIs", " ">>),
              Arr(<<Str(<<"Q1">>), Str(<<" ", "Q2">>)>>), None),
     SaveBody(Str(<<"QA">>), Str(<<"APIs", " ">>), Arr(<<Str(<<"Q1">>)>>),
              Arr(<<EGood1>>)),
     SaveBody(Str(<<"QA">>), Str(<<"APIs", " ">>), Arr(<<>>), None),
     SaveBody(None, Str(<<"APIs", " ">>), Arr(<<Str(<<"Q1">>)>>), None),
     SaveBody(Str(<<"QA">>), Str(<<" ", " ">>), Arr(<<Str(<<"Q1">>)>>), None),
     SaveBody(Str(<<"QA">>), Str(<<"APIs", " ">>), None, None),
     SaveBody(Str(<<"QA">>), Str(<<"APIs", " ">>), Str(<<"Q1">>), None),
     SaveBody(Str(<<"QA">>), Str(<<"APIs", " ">>), Arr(<<Num("7")>>), None),
     SaveBody(Str(<<"QA">>), Str(<<"APIs", " ">>), Arr(<<Str(<<"Q1">>)>>),
              Arr(<<ENoAnswer>>)),
     SaveBody(Str(<<"QA">>), Str(<<"APIs", " ">>), Arr(<<Str(<<"Q1">>)>>),
              EGood1),
     SaveBody(Num("7"), Str(<<"APIs", " ">>), Arr(<<Str(<<"Q1">>)>>), None),
     SaveBody(Str(<<"QA">>), Arr(<<Str(<<"APIs">>)>>), None, None)}

\* lines 122-123: (x or "").strip() raises AttributeError for a truthy x
\* that is not a string
StripRaises(x) == Truthy(x) /\ ~IsStr(x)

\* lines 122-123 raise on the body
FieldRaises(body) ==
    StripRaises(body.job_title) \/ StripRaises(body.job_description)

\* line 130
QuestionsOk(q) == IsList(q) /\ \A i \in 1..Len(q.a) : IsStr(q.a[i])

\* lines 139-140
QaOk(qa) ==
    \/ qa = None
    \/ IsList(qa) /\ \A i \in 1..Len(qa.a) : KeepEntry(qa.a[i])

\* lines 127-144: the body is answered with 400
SaveRejected(body) ==
    \/ RequestRejected(body.job_title, body.job_description)
    \/ ~QuestionsOk(body.questions)
    \/ ~QaOk(body.qa)

\* lines 137-153: the row of the body; qa is empty for NULL
SavedRecord(body, id) ==
    [id |-> id,
     job_title |-> OrEmptyStrip(body.job_title),
     job_description |-> OrEmptyStrip(body.job_description),
     questions |-> JsonDumps(body.questions),
     qa |-> IF body.qa = None THEN <<>> ELSE JsonDumps(body.qa)]

\* POST /save answered with 400
save_Rejected(body) ==
    /\ requests < MaxRequests
    /\ ~FieldRaises(body)
    /\ SaveRejected(body)
    /\ requests' = requests + 1
    /\ httpReq' = body
    /\ httpResp' = Response("save", 400, 0, <<>>, "none")
    /\ UNCHANGED <<db, nextId, acked>>
    /\ UNCHANGED <<agentVars, calls>>

\* POST /save: line 122 or 123 raises and the server answers 500
save_FieldRaises(body) ==
    /\ requests < MaxRequests
    /\ FieldRaises(body)
    /\ requests' = requests + 1
    /\ httpReq' = body
    /\ httpResp' = Response("save", 500, 0, <<>>, "AttributeError")
    /\ UNCHANGED <<db, nextId, acked>>
    /\ UNCHANGED <<agentVars, calls>>

\* POST /save: add, flush, 201 with the id, commit
save_Ok(body) ==
    /\ requests < MaxRequests
    /\ ~FieldRaises(body)
    /\ ~SaveRejected(body)
    /\ requests' = requests + 1
    /\ httpReq' = body
    /\ db' = Append(db, SavedRecord(body, nextId))
    /\ nextId' = nextId + 1
    /\ httpResp' = Response("save", 201, nextId, <<>>, "none")
    /\ acked' = Append(acked, [id |-> nextId, questions |-> body.questions])
    /\ UNCHANGED <<agentVars, calls>>

\* POST /save: the flush of line 155 raises, get_session rolls back
save_FlushFails(body) ==
    /\ requests < MaxRequests
    /\ ~FieldRaises(body)
    /\ ~SaveRejected(body)
    /\ requests' = requests + 1
    /\ httpReq' = body
    /\ httpResp' = Response("save", 500, 0, <<>>, "SaveError")
    /\ UNCHANGED <<db, nextId, acked>>
    /\ UNCHANGED <<agentVars, calls>>

\* POST /save: the commit of get_session raises after the flush gave an id
save_CommitFails(body) ==
    /\ requests < MaxRequests
    /\ ~FieldRaises(body)
    /\ ~SaveRejected(body)
    /\ requests' = requests + 1
    /\ httpReq' = body
    /\ nextId' = nextId + 1
    /\ httpResp' = Response("save", 500, 0, <<>>, "SaveError")
    /\ UNCHANGED <<db, acked>>
    /\ UNCHANGED <<agentVars, calls>>

\* line 166: the default and the cap of limit
DefaultLimit == 50
MaxLimit == 200

Min(a, b) == IF a <= b THEN a ELSE b

Digits == {"0", "1", "2", "3", "4", "5", "6", "7", "8", "9"}
DigitValue(c) ==
    CASE c = "0" -> 0 [] c = "1" -> 1 [] c = "2" -> 2 [] c = "3" -> 3
      [] c = "4" -> 4 [] c = "5" -> 5 [] c = "6" -> 6 [] c = "7" -> 7
      [] c = "8" -> 8 [] c = "9" -> 9

RECURSIVE IntOfDigits(_, _)
IntOfDigits(s, acc) ==
    IF s = <<>> THEN acc
    ELSE IntOfDigits(Tail(s), 10 * acc + DigitValue(Head(s)))

\* int(x) for a string of the query: surrounding whitespace is skipped, a
\* string that is not a number raises ValueError
IntOf(x) ==
    LET s == Strip(x.s) IN
    IF s # <<>> /\ \A i \in 1..Len(s) : s[i] \in Digits
    THEN [ok |-> TRUE, n |-> IntOfDigits(s, 0)]
    ELSE [ok |-> FALSE, n |-> 0]

\* line 166: limit = min(int(request.args.get("limit", 50)), 200)
Limit(arg) ==
    IF arg = None THEN [ok |-> TRUE, n |-> Min(DefaultLimit, MaxLimit)]
    ELSE IF IntOf(arg).ok THEN [ok |-> TRUE, n |-> Min(IntOf(arg).n, MaxLimit)]
    ELSE [ok |-> FALSE, n |-> 0]

\* the query arguments limit: absent, "1", " 2", "250", "0", "abc"
LimitArgs ==
    {None, Str(<<"1">>), Str(<<" ", "2">>), Str(<<"2", "5", "0">>),
     Str(<<"0">>), Str(<<"abc">>)}

\* the query arguments job_title: absent, "" and "QA"
TitleArgs == {None, Str(<<>>), Str(<<"QA">>)}

\* lines 170-171
Matching(rows, filter) ==
    IF Truthy(filter)
    THEN SelectSeq(rows, LAMBDA r : r.job_title = filter.s)
    ELSE rows

Reverse(rows) == [i \in 1..Len(rows) |-> rows[Len(rows) + 1 - i]]

\* the rows in the order they were stored
OrderByIdDesc_Stored(rows) == rows

\* line 172, order_by(id.desc()): the rows are stored in the order of their
\* ids, which only grow
OrderByIdDesc(rows) == Reverse(rows)

\* line 172, limit(n)
Take(rows, n) == SubSeq(rows, 1, Min(n, Len(rows)))

\* lines 175-193: one item of the answer
Item(r) ==
    [id |-> r.id,
     job_title |-> r.job_title,
     job_description |-> r.job_description,
     questions |-> IF JsonLoads(r.questions).ok THEN JsonLoads(r.questions).v
                   ELSE Arr(<<>>),
     qa |-> IF r.qa # <<>> /\ JsonLoads(r.qa).ok THEN JsonLoads(r.qa).v
            ELSE None]

Items(rows) == [i \in 1..Len(rows) |-> Item(rows[i])]

\* GET /get, lines 162-195
get_saved(limit, filter) ==
    /\ requests < MaxRequests
    /\ requests' = requests + 1
    /\ httpReq' = Request("get", None, None, None, None, limit, filter)
    /\ httpResp' =
         IF Limit(limit).ok
         THEN Response("get", 200, 0,
                  Items(Take(OrderByIdDesc(Matching(db, filter)), Limit(limit).n)),
                  "none")
         ELSE Response("get", 500, 0, <<>>, "ValueError")
    /\ UNCHANGED <<db, nextId, acked>>
    /\ UNCHANGED <<agentVars, calls>>

\* GET /get: the query of line 172 raises, get_session rolls back
get_saved_QueryFails(limit, filter) ==
    /\ requests < MaxRequests
    /\ Limit(limit).ok
    /\ requests' = requests + 1
    /\ httpReq' = Request("get", None, None, None, None, limit, filter)
    /\ httpResp' = Response("get", 500, 0, <<>>, "SaveError")
    /\ UNCHANGED <<db, nextId, acked>>
    /\ UNCHANGED <<agentVars, calls>>

\* the table after n requests POST /save answered with 201
PastRows(n) ==
    [i \in 1..n |->
        SavedRecord(SaveBody(Str(<<"QA">>), Str(<<"APIs">>),
                             Arr(<<Str(<<"Q1">>)>>), None), i)]
PastAcks(n) ==
    [i \in 1..n |-> [id |-> i, questions |-> Arr(<<Str(<<"Q1">>)>>)]]

\* the server starts on an empty table or on one with more rows than the
\* cap of limit
InitHttp ==
    /\ apiKey = Str(<<"key">>)
    /\ pc = "idle"
    /\ runs = 0
    /\ reqTitle = None
    /\ reqDescription = None
    /\ RunLocalsInit
    /\ dbAtStart = <<>>
    /\ httpReq = NoRequest
    /\ httpResp = NoResponse
    /\ calls = NoCalls
    /\ \E n \in {0, MaxLimit + 1} :
          /\ db = PastRows(n)
          /\ nextId = n + 1
          /\ acked = PastAcks(n)
          /\ requests = 0

NextHttp ==
    \/ \E jt \in JobTitles, jd \in JobDescriptions : agent_run(jt, jd)
    \/ \E body \in SaveBodies : save_Rejected(body)
    \/ \E body \in SaveBodies : save_FieldRaises(body)
    \/ \E body \in SaveBodies : save_Ok(body)
    \/ \E body \in SaveBodies : save_FlushFails(body)
    \/ \E body \in SaveBodies : save_CommitFails(body)
    \/ \E limit \in LimitArgs, filter \in TitleArgs : get_saved(limit, filter)
    \/ \E limit \in LimitArgs, filter \in TitleArgs :
          get_saved_QueryFails(limit, filter)

SpecHttp == InitHttp /\ [][NextHttp]_vars

(***************************************************************************)
(* Two concurrent calls of run (one QuestionAgent per request, app.py      *)
(* line 110): the locals of each call are its own, the settings are only   *)
(* read, and the table and its id sequence are what the calls share        *)
(***************************************************************************)
runVars ==
    <<pc, runs, reqTitle, reqDescription, jobTitle, jobDescription, output,
      content, qaByLevel, flatQs, pending, sessLog, outcome, result, exc,
      genCalls, modelCalls, saveCalls, dbAtStart>>

\* call t ends by returning or raising o
CallEnds(t, o) == calls' = [calls EXCEPT ![t].pc = "done", ![t].outcome = o]

\* agent.py lines 124-128
CallBegin(t, jt, jd) ==
    /\ calls[t].pc = "idle"
    /\ calls' =
         [calls EXCEPT
            ![t].reqTitle = jt,
            ![t].reqDescription = jd,
            ![t].job_title = OrEmptyStrip(jt),
            ![t].job_description = OrEmptyStrip(jd),
            ![t].pc = IF RequestRejected(jt, jd) THEN "done" ELSE "generate",
            ![t].outcome = IF RequestRejected(jt, jd) THEN "ValueError"
                           ELSE "none"]
    /\ UNCHANGED <<apiKey, db, nextId>>
    /\ UNCHANGED <<runVars, httpVars>>

\* agent.py lines 37-61 and 121-122: no key, or the call of the model raises
CallModelFails(t) ==
    /\ calls[t].pc = "generate"
    /\ CallEnds(t, "AIUnavailableError")
    /\ UNCHANGED <<apiKey, db, nextId>>
    /\ UNCHANGED <<runVars, httpVars>>

\* agent.py lines 41-122: the model answers out and generate_qa returns
\* its levels or raises
CallGenerate(t, out) ==
    /\ calls[t].pc = "generate"
    /\ Truthy(apiKey)
    /\ calls' =
         [calls EXCEPT
            ![t].output = out,
            ![t].qa_by_level = Normalize(out.resp).levels,
            ![t].pc = IF Normalize(out.resp).ok THEN "flatten" ELSE "done",
            ![t].outcome = IF Normalize(out.resp).ok THEN "none"
                           ELSE "AIUnavailableError"]
    /\ UNCHANGED <<apiKey, db, nextId>>
    /\ UNCHANGED <<runVars, httpVars>>

\* agent.py lines 131-137
CallFlatten(t) ==
    /\ calls[t].pc = "flatten"
    /\ IF \A i \in 1..Len(AllEntries(calls[t].qa_by_level)) :
            QuestionStrips(AllEntries(calls[t].qa_by_level)[i])
       THEN calls' =
              [calls EXCEPT
                 ![t].flat_qs = FlatQuestions(AllEntries(calls[t].qa_by_level)),
                 ![t].pc = "save"]
       ELSE CallEnds(t, "AttributeError")
    /\ UNCHANGED <<apiKey, db, nextId>>
    /\ UNCHANGED <<runVars, httpVars>>

\* the flush handing both sessions the same generated id
CallFlushOk_SameId(t) ==
    /\ calls[t].pc = "save"
    /\ calls' =
         [calls EXCEPT
            ![t].pending =
               <<[NewRecord(calls[t].job_title, calls[t].job_description,
                            calls[t].flat_qs, calls[t].qa_by_level)
                    EXCEPT !.id = Len(db) + 1]>>,
            ![t].pc = "commit"]
    /\ nextId' = nextId + 1
    /\ UNCHANGED <<apiKey, db>>
    /\ UNCHANGED <<runVars, httpVars>>

\* app.py lines 85-95: the call opens its own session, adds its record and
\* flushes; the database generates the id
CallFlushOk(t) ==
    /\ calls[t].pc = "save"
    /\ calls' =
         [calls EXCEPT
            ![t].pending =
               <<[NewRecord(calls[t].job_title, calls[t].job_description,
                            calls[t].flat_qs, calls[t].qa_by_level)
                    EXCEPT !.id = nextId]>>,
            ![t].pc = "commit"]
    /\ nextId' = nextId + 1
    /\ UNCHANGED <<apiKey, db>>
    /\ UNCHANGED <<runVars, httpVars>>

\* app.py line 95 raises; database.py lines 90-94
CallFlushFails(t) ==
    /\ calls[t].pc = "save"
    /\ CallEnds(t, "SaveError")
    /\ UNCHANGED <<apiKey, db, nextId>>
    /\ UNCHANGED <<runVars, httpVars>>

\* agent.py lines 139-147, from the locals of call c
CallResult(c) ==
    [id |-> c.pending[1].id,
     job_title |-> c.job_title,
     job_description |-> c.job_description,
     questions |-> c.flat_qs,
     qa |-> c.qa_by_level,
     source |-> "gemini"]

\* database.py lines 89 and 94: the session of the call commits its own
\* record; then run returns
CallCommitOk(t) ==
    /\ calls[t].pc = "commit"
    /\ db' = db \o calls[t].pending
    /\ calls' =
         [calls EXCEPT
            ![t].pending = <<>>,
            ![t].result = CallResult(calls[t]),
            ![t].pc = "done",
            ![t].outcome = "ok"]
    /\ UNCHANGED <<apiKey, nextId>>
    /\ UNCHANGED <<runVars, httpVars>>

\* database.py line 89 raises; lines 90-94 roll back and close
CallCommitFails(t) ==
    /\ calls[t].pc = "commit"
    /\ calls' =
         [calls EXCEPT
            ![t].pending = <<>>, ![t].pc = "done", ![t].outcome = "SaveError"]
    /\ UNCHANGED <<apiKey, db, nextId>>
    /\ UNCHANGED <<runVars, httpVars>>

NextConc ==
    \/ \E t \in Calls, jt \in JobTitles, jd \in JobDescriptions :
          CallBegin(t, jt, jd)
    \/ \E t \in Calls : CallModelFails(t)
    \/ \E t \in Calls, out \in RunOutputs : CallGenerate(t, out)
    \/ \E t \in Calls : CallFlatten(t)
    \/ \E t \in Calls : CallFlushOk(t)
    \/ \E t \in Calls : CallFlushFails(t)
    \/ \E t \in Calls : CallCommitOk(t)
    \/ \E t \in Calls : CallCommitFails(t)

SpecConc == Init /\ [][NextConc]_vars

(***************************************************************************)
(* Properties                                                              *)
(***************************************************************************)
\* generate_qa has returned its levels to run
GenReturned ==
    \/ pc \in {"flatten", "save", "flush", "commit"}
    \/ pc = "done" /\ outcome \in {"ok", "SaveError", "AttributeError"}

\* generate_qa has raised AIUnavailableError
GenFailed == pc = "done" /\ outcome = "AIUnavailableError"

GenDone == GenReturned \/ GenFailed

\* an argument that is None or empty after trimming
Blank(x) == x = None \/ \A i \in 1..Len(x.s) : x.s[i] = " "

\* an entry that has both a question and an answer
HasBoth(x) ==
    x.t = "obj" /\ {KQuestion, KAnswer} \subseteq {x.o[i].k : i \in 1..Len(x.o)}

\* the entries the model wrote under tier k of the object json
InputTier(json, k) ==
    IF \E i \in 1..Len(json.o) : json.o[i].k = k
    THEN (json.o[CHOOSE i \in 1..Len(json.o) : json.o[i].k = k]).v.a
    ELSE <<>>

ExpectedLevels(json) ==
    [basic |-> SelectSeq(InputTier(json, KBasic), HasBoth),
     intermediate |-> SelectSeq(InputTier(json, KIntermediate), HasBoth),
     expert |-> SelectSeq(InputTier(json, KExpert), HasBoth)]

IsPrefix(a, b) == Len(a) <= Len(b) /\ SubSeq(b, 1, Len(a)) = a

\* C1: a run whose job_title or job_description is None or empty after
\* trimming has ended with ValueError, with no call of the model and no call
\* of the save callback.
C1_ValidationBeforeModel ==
    (pc # "idle" /\ (Blank(reqTitle) \/ Blank(reqDescription)))
        => /\ pc = "done"
           /\ outcome = "ValueError"
           /\ modelCalls = 0
           /\ saveCalls = 0

C1_Witness ==
    /\ pc = "done"
    /\ outcome = "ValueError"
    /\ reqTitle = Str(<<"QA">>)
    /\ reqDescription = Str(<<" ", " ">>)
    /\ Truthy(apiKey)

\* C2: once the model call has failed, the run ends with AIUnavailableError
\* and the save callback is never invoked for it.
C2_ModelFailureUnavailable ==
    exc = "APIError"
        => /\ pc \in {"except", "done"}
           /\ pc = "done" => outcome = "AIUnavailableError"
           /\ saveCalls = 0
           /\ db = dbAtStart

C2_Witness == pc = "done" /\ exc = "APIError" /\ modelCalls = 1

\* C3: with no gemini_api_key, a call of generate_qa ends with
\* AIUnavailableError without a call of the model and without a save.
C3_NoCredentialUnavailable ==
    (genCalls = 1 /\ ~Truthy(apiKey) /\ pc # "generate_qa")
        => /\ pc = "done"
           /\ outcome = "AIUnavailableError"
           /\ modelCalls = 0
           /\ saveCalls = 0
           /\ db = dbAtStart

C3_Witness == pc = "done" /\ genCalls = 1 /\ apiKey = None

\* C4: with a credential, a call of generate_qa that is past the model call
\* has invoked the model exactly once, whatever its outcome, and run calls
\* generate_qa at most once.
C4_ModelCalledOnce ==
    /\ genCalls <= 1
    /\ modelCalls <= 1
    /\ (genCalls = 1 /\ Truthy(apiKey) /\ pc # "generate_qa") => modelCalls = 1

C4_Witness ==
    pc = "done" /\ outcome = "AIUnavailableError" /\ exc = "ValueError"
        /\ modelCalls = 1

\* C5: whatever the model returned, generate_qa either returns levels of
\* which one is non-empty and whose entries all have both keys, or raises
\* AIUnavailableError and returns nothing; text that is no JSON, a JSON
\* scalar and a response without any entry having both keys all end in
\* AIUnavailableError.
C5_ValidatedOrUnavailable ==
    /\ (pc = "done" /\ exc # "none") => outcome = "AIUnavailableError"
    /\ GenFailed => qaByLevel = EmptyLevels
    /\ GenReturned =>
          /\ qaByLevel # EmptyLevels
          /\ \A k \in {"basic", "intermediate", "expert"} :
                \A i \in 1..Len(qaByLevel[k]) : HasBoth(qaByLevel[k][i])
    /\ (GenDone /\ output.kind \in {"text", "scalar"}) => GenFailed
    /\ (GenDone /\ output.kind = "leveled"
          /\ ExpectedLevels(output.json) = EmptyLevels) => GenFailed

C5_Witness ==
    /\ GenFailed
    /\ exc = "JSONDecodeError"
    /\ output.resp.text = <<Word("not"), Word("json"), Word("at"), Word("all")>>

\* C6: a run that ended in a failure of any kind leaves the committed
\* records as they were when it was called, and nothing pending.
C6_FailedRunLeavesNoRecord ==
    (pc = "done" /\ outcome # "ok") => (db = dbAtStart /\ pending = <<>>)

C6_Witness ==
    /\ pc = "done"
    /\ outcome = "SaveError"
    /\ sessLog = <<"open", "add", "flush", "commit_raised", "rollback", "close">>
    /\ dbAtStart # <<>>

\* C7: a successful run has called the save callback once and added exactly
\* one record, and no step changes or removes a stored record.
C7_State ==
    /\ IsPrefix(dbAtStart, db)
    /\ Len(db) <= Len(dbAtStart) + 1
    /\ (pc = "done" /\ outcome = "ok")
          => (Len(db) = Len(dbAtStart) + 1 /\ saveCalls = 1)

C7_OneRecordPerSuccess == [](C7_State) /\ [][IsPrefix(db, db')]_vars

C7_Witness == pc = "done" /\ outcome = "ok" /\ Len(db) = 2

\* C8: for a response that is a leveled JSON object, each returned tier is
\* the entries of the input tier that have both keys, in their order, and
\* generate_qa fails exactly when all three are empty.
C8_LeveledFilter ==
    (output.kind = "leveled" /\ GenDone)
        => /\ GenFailed <=> ExpectedLevels(output.json) = EmptyLevels
           /\ GenReturned => qaByLevel = ExpectedLevels(output.json)

C8_Witness ==
    /\ GenReturned
    /\ output.json = OnlyExpert
    /\ qaByLevel = [EmptyLevels EXCEPT !.expert = <<EGood1>>]

\* C9: every pair returned by generate_qa has a non-empty string as its
\* question and a string as its answer.
C9_PairsAreStrings ==
    GenReturned =>
        \A k \in {"basic", "intermediate", "expert"} :
            \A i \in 1..Len(qaByLevel[k]) :
                LET x == qaByLevel[k][i] IN
                /\ HasBoth(x)
                /\ DictGet(x, KQuestion).t = "str"
                /\ DictGet(x, KQuestion).s # <<>>
                /\ DictGet(x, KAnswer).t = "str"

\* C10: a bare JSON array is mapped into the basic tier: basic is the
\* entries of the array that have both keys, in their order, the other
\* tiers are empty, and generate_qa fails when no entry has both keys.
C10_BareArrayIsBasic ==
    (output.kind = "array" /\ GenDone)
        => /\ GenFailed <=> SelectSeq(output.json.a, HasBoth) = <<>>
           /\ GenReturned =>
                 qaByLevel = [basic |-> SelectSeq(output.json.a, HasBoth),
                              intermediate |-> <<>>,
                              expert |-> <<>>]

C10_Witness ==
    /\ GenReturned
    /\ output.json = Arr(<<EGood2, ENoQuestion, EGood1>>)
    /\ qaByLevel.basic = <<EGood2, EGood1>>

\* the outcome of generate_qa is the one of normalizing text on its own
SameAsText(text) ==
    LET n == Normalize(Resp(text, <<>>)) IN
    /\ GenFailed <=> ~n.ok
    /\ GenReturned => qaByLevel = n.levels

\* C11: a JSON text in a triple-backtick fence (with or without a language
\* tag on the opening line) is normalized to the same outcome as the JSON
\* text without the fence.
C11_FencedAsUnfenced ==
    (output.kind = "fenced" /\ GenDone) => SameAsText(output.inner)

C11_Witness ==
    /\ GenReturned
    /\ output.kind = "fenced"
    /\ output.resp.text =
          Fence(<<>>, Pretty(JsonDumps(Arr(<<EGood2, EGood1>>))), <<FENCE>>)
    /\ qaByLevel.basic = <<EGood2, EGood1>>

\* C12: for every JSON object and every prose before and after it, the
\* prose-wrapped output is normalized to the same outcome as the bare
\* object.
C12_ProseAsBare ==
    (output.kind = "prose" /\ GenDone) => SameAsText(output.inner)

\* C13: text whose only top-level JSON value is an array of
\* {question, answer} objects surrounded by prose is parsed as that array.
C13_ProseArrayAsArray ==
    (output.kind = "prose_array" /\ GenDone) => SameAsText(output.inner)

\* generate_qa is past line 74
Aggregated == output # NoOutput /\ pc # "aggregate"

\* all non-empty fragments of the response in delivery order, joined with
\* newlines, without the whitespace around the whole
JoinedFragments(resp) ==
    StripText(JoinNl(SelectSeq(Flatten(resp.candidates), NonEmpty)))

\* C14 as stated: the text that is normalized is the concatenation of all
\* non-empty fragments in delivery order, separated by newlines.
C14_AllFragmentsJoined ==
    (Aggregated /\ output.kind = "parts") =>
        content = JoinedFragments(output.resp)

\* C14, amended: when resp.text is empty or absent, the text that is
\* normalized is the concatenation of all non-empty fragments of all
\* candidates in delivery order, separated by newlines and stripped; when
\* resp.text is not empty, it alone is normalized and the fragments are
\* not read.
C14_FragmentsJoinedWithoutText ==
    Aggregated =>
        IF output.resp.text = <<>>
        THEN content = JoinedFragments(output.resp)
        ELSE content = StripText(output.resp.text)

C14_Witness ==
    /\ GenReturned
    /\ output.resp = Resp(<<>>, << <<FragHead, <<>>>>, <<FragTail>> >>)
    /\ content = FragHead \o <<NL>> \o FragTail
    /\ qaByLevel.basic = <<EGood1>>

\* run has returned a result
RunSucceeded == pc = "done" /\ outcome = "ok"

\* a pair with a non-empty string question and a string answer
ValidPair(x) ==
    /\ HasBoth(x)
    /\ IsStr(DictGet(x, KQuestion)) /\ DictGet(x, KQuestion).s # <<>>
    /\ IsStr(DictGet(x, KAnswer))

\* a leveled object: tiers only, each an array of valid pairs, one at least
ValidLeveled(json) ==
    /\ json.t = "obj"
    /\ \A i \in 1..Len(json.o) :
          /\ json.o[i].k \in {KBasic, KIntermediate, KExpert}
          /\ json.o[i].v.t = "arr"
          /\ \A j \in 1..Len(json.o[i].v.a) : ValidPair(json.o[i].v.a[j])
    /\ \E i \in 1..Len(json.o) : json.o[i].v.a # <<>>

\* the pairs of the object in tier order, whatever the order of its keys
PairsInTierOrder(json) ==
    InputTier(json, KBasic) \o InputTier(json, KIntermediate)
        \o InputTier(json, KExpert)

\* the question strings as the model wrote them
RawQuestions(json) ==
    [i \in 1..Len(PairsInTierOrder(json)) |->
        DictGet(PairsInTierOrder(json)[i], KQuestion).s]

\* the question strings trimmed, the ones that are only whitespace left out
TrimmedQuestions(json) ==
    SelectSeq([i \in 1..Len(RawQuestions(json)) |-> Strip(RawQuestions(json)[i])],
              NonEmpty)

\* C15 as stated: for a successful run on a valid leveled object, questions
\* is non-empty and is the question strings in tier order, and qa equals
\* the leveled object.
C15_QuestionsAsWritten ==
    (RunSucceeded /\ ValidLeveled(output.json)) =>
        /\ result.questions # <<>>
        /\ result.questions = RawQuestions(output.json)
        /\ result.qa = ExpectedLevels(output.json)

\* C15, amended: for a successful run on a valid leveled object, questions
\* is the question strings trimmed of surrounding whitespace, those that are
\* only whitespace left out, in the tier order basic, intermediate, expert
\* and in array order within a tier, whatever the key order of the JSON; it
\* is non-empty when one question is not blank; qa equals the leveled
\* object, a tier the object omits being an empty list.
C15_QuestionsTrimmedInTierOrder ==
    (RunSucceeded /\ ValidLeveled(output.json)) =>
        /\ result.questions = TrimmedQuestions(output.json)
        /\ (\E i \in 1..Len(RawQuestions(output.json)) :
               ~Blank(Str(RawQuestions(output.json)[i])))
              => result.questions # <<>>
        /\ result.qa = ExpectedLevels(output.json)

C15_Witness ==
    /\ RunSucceeded
    /\ output.json = PermutedLeveled
    /\ result.questions = << <<"Q1">>, <<"Q2">>, <<"Q2">>, <<"Q1">> >>
    /\ result.qa.expert = <<EGood2, EGood1>>

\* the events of the session scope of this run
SessEvents == {sessLog[i] : i \in 1..Len(sessLog)}
Raised == SessEvents \cap {"flush_raised", "commit_raised"} # {}
Times(e) == Cardinality({i \in 1..Len(sessLog) : sessLog[i] = e})

\* the save callback of this run has failed
SaveFailed == pc = "done" /\ Raised

\* C16: when the save callback fails, run ends with that failure, which is
\* neither the validation failure nor Unavailable, returns no result, has
\* called the callback exactly once and has stored nothing.
C16_SaveFailurePropagates ==
    SaveFailed =>
        /\ outcome = "SaveError"
        /\ outcome \notin {"ValueError", "AIUnavailableError"}
        /\ result = NoResult
        /\ saveCalls = 1
        /\ db = dbAtStart

C16_Witness ==
    /\ SaveFailed
    /\ "flush_raised" \in SessEvents
    /\ qaByLevel.expert = <<EGood1>>
    /\ saveCalls = 1

\* C17: a get_session scope that is over has ended either in a commit,
\* after a body that raised nothing, or in a rollback followed by the
\* re-raised exception, after the body or the commit raised; never both;
\* the session is closed once, as the last step; a scope that is not over
\* has neither committed, rolled back nor closed.
C17_SessionScope ==
    /\ (pc = "done" /\ sessLog # <<>>) =>
          /\ sessLog[1] = "open"
          /\ sessLog[Len(sessLog)] = "close" /\ Times("close") = 1
          /\ Times("commit") + Times("rollback") = 1
          /\ "commit" \in SessEvents <=> ~Raised
          /\ "commit" \in SessEvents =>
                /\ sessLog[Len(sessLog) - 1] = "commit"
                /\ outcome = "ok"
          /\ "rollback" \in SessEvents =>
                /\ sessLog[Len(sessLog) - 1] = "rollback"
                /\ sessLog[Len(sessLog) - 2] \in {"flush_raised", "commit_raised"}
                /\ outcome = "SaveError"
    /\ pc \in {"flush", "commit"} =>
          SessEvents \cap {"commit", "rollback", "close"} = {}

C17_Witness ==
    /\ pc = "done"
    /\ outcome = "SaveError"
    /\ sessLog = <<"open", "add", "flush_raised", "rollback", "close">>

\* C18 as stated: POST /agent answers 400 when job_title or job_description
\* is empty; when both are non-empty it answers 201 or 503 unless the
\* database failed.
C18_AgentStatusCodes ==
    httpResp.route = "agent" =>
        IF RequestRejected(httpReq.job_title, httpReq.job_description)
        THEN httpResp.status = 400
        ELSE httpResp.error # "SaveError" => httpResp.status \in {201, 503}

\* the rows stored after the one with this id
NewerThan(id) == Cardinality({i \in 1..Len(db) : db[i].id > id})

\* C19: after GET /get has answered, its items are in descending id order;
\* when the request had no job_title filter, every record that POST /save
\* answered 201 for, with fewer than limit records stored after it, is among
\* the items with its id and its questions list. limit is the handler's
\* variable: the query argument, 50 when absent, capped at 200.
C19_SavedThenListed ==
    (httpResp.route = "get" /\ httpResp.status = 200) =>
        /\ \A i \in 1..(Len(httpResp.items) - 1) :
              httpResp.items[i].id > httpResp.items[i + 1].id
        /\ httpReq.filter = None =>
              \A k \in 1..Len(acked) :
                 NewerThan(acked[k].id) < Limit(httpReq.limit).n =>
                    \E i \in 1..Len(httpResp.items) :
                       /\ httpResp.items[i].id = acked[k].id
                       /\ httpResp.items[i].questions = acked[k].questions

C19_Witness ==
    /\ httpResp.route = "get" /\ httpResp.status = 200
    /\ httpReq.filter = None
    /\ httpReq.limit = Str(<<" ", "2">>)
    /\ Len(acked) = 2
    /\ Len(httpResp.items) = 2
    /\ httpResp.items[1].id = acked[2].id
    /\ httpResp.items[1].questions = Arr(<<Str(<<"Q1">>), Str(<<" ", "Q2">>)>>)
    /\ httpResp.items[2].id = acked[1].id

(***************************************************************************)
(* Concurrent calls                                                        *)
(***************************************************************************)
\* call t has returned
CallSucceeded(t) == calls[t].pc = "done" /\ calls[t].outcome = "ok"

\* the row a call of run alone stores for the request and response of c
RowAlone(c) ==
    NewRecord(OrEmptyStrip(c.reqTitle), OrEmptyStrip(c.reqDescription),
              RunSummary(c.output).questions, RunSummary(c.output).qa)

\* how a call of run alone ends on the request and response of c, the
\* save failing or not
OutcomesAlone(c) ==
    IF RequestRejected(c.reqTitle, c.reqDescription) THEN {"ValueError"}
    ELSE IF RunSummary(c.output).outcome = "ok" THEN {"ok", "SaveError"}
    ELSE {RunSummary(c.output).outcome}

\* C21: in every interleaving of two concurrent calls of run, each call
\* ends as it would alone on its own request and its own response, a
\* successful call returns its own fields and has stored exactly one row
\* holding them under the id it returns, the table holds one row per
\* successful call and nothing else, and two successful calls have
\* different ids
C21_CallsIndependent ==
    /\ \A t \in Calls :
          calls[t].pc = "done" =>
             /\ calls[t].outcome \in OutcomesAlone(calls[t])
             /\ calls[t].outcome = "ok" =>
                  /\ calls[t].result.job_title = OrEmptyStrip(calls[t].reqTitle)
                  /\ calls[t].result.job_description =
                       OrEmptyStrip(calls[t].reqDescription)
                  /\ calls[t].result.questions =
                       RunSummary(calls[t].output).questions
                  /\ calls[t].result.qa = RunSummary(calls[t].output).qa
                  /\ Cardinality({i \in 1..Len(db) :
                                    db[i].id = calls[t].result.id}) = 1
                  /\ \A i \in 1..Len(db) :
                        db[i].id = calls[t].result.id =>
                           db[i] = [RowAlone(calls[t])
                                      EXCEPT !.id = calls[t].result.id]
    /\ Len(db) = Cardinality({t \in Calls : CallSucceeded(t)})
    /\ \A t \in Calls, u \in Calls :
          t # u /\ CallSucceeded(t) /\ CallSucceeded(u) =>
             calls[t].result.id # calls[u].result.id

\* both calls succeeded on different requests and different responses,
\* and the call that flushed second committed first
C21_Witness ==
    /\ CallSucceeded(1)
    /\ CallSucceeded(2)
    /\ calls[1].result.job_title # calls[2].result.job_title
    /\ calls[1].result.qa # calls[2].result.qa
    /\ calls[1].result.questions # calls[2].result.questions
    /\ Len(db) = 2
    /\ db[1].id > db[2].id

(***************************************************************************)
(* Outcomes of run                                                         *)
(***************************************************************************)
\* C22: every call of run ends as a success, a validation failure
\* (ValueError), AIUnavailableError or a failure raised by the save
\* callback, and a call that fails after the validation passed and before
\* the save callback is entered ends as AIUnavailableError
C22_FourOutcomes ==
    pc = "done" =>
       /\ outcome \in {"ok", "ValueError", "AIUnavailableError", "SaveError"}
       /\ outcome # "ok" /\ ~RequestRejected(reqTitle, reqDescription)
            /\ saveCalls = 0 => outcome = "AIUnavailableError"

(***************************************************************************)
(* POST /save                                                              *)
(***************************************************************************)
\* a field of the body that is absent or empty after trimming
EmptyField(x) == ~Truthy(x) \/ (IsStr(x) /\ \A i \in 1..Len(x.s) : x.s[i] = " ")

\* the body is one that the route refuses: a title or a description empty
\* after trimming, questions not a list of strings, or a qa that is present
\* and not a list of objects having question and answer
InvalidSave(body) ==
    \/ EmptyField(body.job_title)
    \/ EmptyField(body.job_description)
    \/ body.questions.t # "arr"
    \/ \E i \in 1..Len(body.questions.a) : body.questions.a[i].t # "str"
    \/ body.qa # None /\ body.qa.t # "arr"
    \/ body.qa # None /\ \E i \in 1..Len(body.qa.a) : ~HasBoth(body.qa.a[i])

\* C23: POST /save answers 400 and leaves the table as it was when the
\* body is invalid, and in every other case appends exactly one row and
\* answers 201 with the id of that row
C23_SaveAnswers ==
    [][httpReq'.route = "save" /\ requests' = requests + 1 =>
         IF InvalidSave(httpReq')
         THEN httpResp'.status = 400 /\ db' = db
         ELSE /\ httpResp'.status = 201
              /\ Len(db') = Len(db) + 1
              /\ db'[Len(db')].id = httpResp'.id
              /\ \A i \in 1..Len(db) : db'[i] = db[i]]_vars

(***************************************************************************)
(* The result of run and the stored record                                 *)
(***************************************************************************)
\* what GET /get without arguments answers on the table
Listed == Items(Take(OrderByIdDesc(Matching(db, None)), Limit(None).n))

\* the items of the list that carry the id run returned
ListedResult == SelectSeq(Listed, LAMBDA item : item.id = result.id)

\* C24: after a successful run the result carries the questions and the qa
\* that were handed to the save callback; the record listed by GET /get
\* under the returned id decodes to the same questions and the same qa, and
\* the result and the record carry the trimmed job title and description
C24_ResultIsStoredRecord ==
    RunSucceeded =>
       /\ result.questions = flatQs
       /\ result.qa = qaByLevel
       /\ Len(ListedResult) = 1
       /\ ListedResult[1].questions = StrList(result.questions)
       /\ ListedResult[1].qa = LevelsObj(result.qa)
       /\ result.job_title = Strip(reqTitle.s)
       /\ result.job_description = Strip(reqDescription.s)
       /\ ListedResult[1].job_title = result.job_title
       /\ ListedResult[1].job_description = result.job_description

\* a second successful run with a title and questions that had to be
\* trimmed, its record read back from a table of two
C24_Witness ==
    /\ RunSucceeded
    /\ reqTitle.s # result.job_title
    /\ reqDescription.s # result.job_description
    /\ output.json = PermutedLeveled
    /\ Len(Listed) = 2
    /\ Listed[1].id = result.id
    /\ Listed[1].qa = LevelsObj(result.qa)
    /\ Len(result.questions) = 4

(***************************************************************************)
(* questions against qa                                                    *)
(***************************************************************************)
\* the pairs of the returned qa, tier after tier
ResultPairs == result.qa.basic \o result.qa.intermediate \o result.qa.expert

\* the question of a pair without its surrounding whitespace; nothing for
\* a question that is null or empty
TrimmedQuestion(x) ==
    IF DictGet(x, KQuestion).t = "str" THEN Strip(DictGet(x, KQuestion).s)
    ELSE <<>>

\* a question that is null, empty or only whitespace
BlankQuestion(x) ==
    \/ DictGet(x, KQuestion).t # "str"
    \/ \A i \in 1..Len(DictGet(x, KQuestion).s) :
          DictGet(x, KQuestion).s[i] = " "

\* C25: after a successful run, questions is the sequence of the questions
\* of the pairs of qa, trimmed, in the order of the pairs, without those
\* that are empty after trimming; such pairs are still in qa; questions is
\* no longer than the number of pairs, and each of its elements is a
\* non-empty string without surrounding whitespace
C25_QuestionsFromQa ==
    RunSucceeded =>
       /\ result.questions =
            SelectSeq([i \in 1..Len(ResultPairs) |->
                          TrimmedQuestion(ResultPairs[i])], NonEmpty)
       /\ Len(result.questions) =
            Cardinality({i \in 1..Len(ResultPairs) :
                            ~BlankQuestion(ResultPairs[i])})
       /\ Len(result.questions) <= Len(ResultPairs)
       /\ \A i \in 1..Len(result.questions) :
             /\ result.questions[i] # <<>>
             /\ Head(result.questions[i]) # " "
             /\ result.questions[i][Len(result.questions[i])] # " "
       /\ output.kind = "leveled" =>
             \A i \in 1..Len(PairsInTierOrder(output.json)) :
                HasBoth(PairsInTierOrder(output.json)[i]) =>
                   \E j \in 1..Len(ResultPairs) :
                      ResultPairs[j] = PairsInTierOrder(output.json)[i]

\* a successful run on pairs whose questions are null, empty, whitespace
\* and padded: two questions out of five pairs
C25_Witness ==
    /\ RunSucceeded
    /\ output.json = FalsyLeveled
    /\ Len(ResultPairs) = 5
    /\ result.questions = << <<"Q2">>, <<"Q1">> >>
    /\ result.qa.basic[1] = ENullQuestion
    /\ result.qa.expert[1] = EBlankQuestion

(***************************************************************************)
(* The shape of what generate_qa returns                                   *)
(***************************************************************************)
TierKeys == {KBasic, KIntermediate, KExpert}

\* what the object json has under key k; None when it has no such key
Written(json, k) ==
    IF \E i \in 1..Len(json.o) : json.o[i].k = k
    THEN json.o[CHOOSE i \in 1..Len(json.o) : json.o[i].k = k].v
    ELSE None

\* C26: what generate_qa returns has the keys basic, intermediate and
\* expert and no other, each with a list, one of them non-empty; when the
\* model wrote an object, each tier holds the entries with a question and an
\* answer of the list written under that tier, and is empty when the tier
\* is missing or is not a list, whatever else the object holds
C26_ThreeTiersOfLists ==
    GenReturned =>
       /\ DOMAIN qaByLevel = {k[1] : k \in TierKeys}
       /\ \A k \in TierKeys :
             DOMAIN qaByLevel[k[1]] = 1..Len(qaByLevel[k[1]])
       /\ \E k \in TierKeys : qaByLevel[k[1]] # <<>>
       /\ output.json.t = "obj" =>
             \A k \in TierKeys :
                qaByLevel[k[1]] =
                   IF Written(output.json, k).t = "arr"
                   THEN SelectSeq(Written(output.json, k).a, HasBoth)
                   ELSE <<>>

\* generate_qa returned on an object with a list of pairs under a key that
\* is no tier, a single pair in place of a list, and one tier that is a list
C26_Witness ==
    /\ GenReturned
    /\ output.kind = "odd"
    /\ Written(output.json, KAdvanced) = Arr(<<EGood1>>)
    /\ Written(output.json, KBasic) = EGood1
    /\ Written(output.json, KIntermediate) = None
    /\ qaByLevel =
         [basic |-> <<>>, intermediate |-> <<>>, expert |-> <<EGood1>>]

====
